---------------------------- MODULE Spec2Model ----------------------------
(***************************************************************************)
(* A model of scanpy_scripts/lib/_filter.py: filter_anndata and its        *)
(* helpers _get_attributes, _attributes_exists and _get_filter_conditions. *)
(*                                                                         *)
(* Attribute names are sequences of one-character strings, so that the     *)
(* prefix test, str.partition and the two regular expressions of the code  *)
(* are computed on the characters.  Numbers (bounds and column values) are *)
(* fixed-point decimals counted in tenths: Num(i, t) stands for i + t/10.  *)
(***************************************************************************)
EXTENDS Integers, Sequences, FiniteSets, TLC

(***************************************************************************)
(* Bounds of the model.                                                    *)
(***************************************************************************)
\* rows of the cell table (adata.obs)
NObs == 3
\* rows of the gene table (adata.var)
NVar == 2
\* total number of conditions given in param + category + subset
MaxConds == 2

(***************************************************************************)
(* Characters, names and numbers.                                          *)
(***************************************************************************)
Num(i, t) == 10 * i + t

Digits == <<"0", "1", "2", "3", "4", "5", "6", "7", "8", "9">>

IsDigit(ch) == \E d \in 1..Len(Digits) : Digits[d] = ch

DigitValue(ch) == (CHOOSE d \in 1..Len(Digits) : Digits[d] = ch) - 1

\* the characters the pattern class \S rejects
IsSpace(ch) == ch = " "

StartsWith(s, p) == Len(s) >= Len(p) /\ SubSeq(s, 1, Len(p)) = p

EndsWith(s, p) == Len(s) >= Len(p) /\ SubSeq(s, Len(s) - Len(p) + 1, Len(s)) = p

\* str.partition(sep) for a one-character sep: <<head, sep or empty, tail>>
Partition(s, sep) ==
    IF \E i \in 1..Len(s) : s[i] = sep
    THEN LET i == CHOOSE k \in 1..Len(s) :
                      s[k] = sep /\ \A j \in 1..(k - 1) : s[j] # sep
         IN  <<SubSeq(s, 1, i - 1), <<sep>>, SubSeq(s, i + 1, Len(s))>>
    ELSE <<s, <<>>, <<>>>>

\* int() of a string of decimal digits
RECURSIVE IntOf(_)
IntOf(ds) ==
    IF ds = <<>> THEN 0
    ELSE 10 * IntOf(SubSeq(ds, 1, Len(ds) - 1)) + DigitValue(ds[Len(ds)])

S_index == <<"i", "n", "d", "e", "x">>
S_n_genes == <<"n", "_", "g", "e", "n", "e", "s">>
S_n_counts == <<"n", "_", "c", "o", "u", "n", "t", "s">>
S_n_cells == <<"n", "_", "c", "e", "l", "l", "s">>
S_mean_counts == <<"m", "e", "a", "n", "_", "c", "o", "u", "n", "t", "s">>
S_pct_dropout_by_counts ==
    <<"p", "c", "t", "_", "d", "r", "o", "p", "o", "u", "t", "_", "b", "y", "_",
      "c", "o", "u", "n", "t", "s">>
S_pct_counts_ == <<"p", "c", "t", "_", "c", "o", "u", "n", "t", "s", "_">>
S_in_top_ == <<"i", "n", "_", "t", "o", "p", "_">>
S__genes == <<"_", "g", "e", "n", "e", "s">>
S_mito == <<"m", "i", "t", "o">>
S_louvain == <<"l", "o", "u", "v", "a", "i", "n">>
S_symbol == <<"s", "y", "m", "b", "o", "l">>
S_gene_id == <<"g", "e", "n", "e", "_", "i", "d">>
S_foo == <<"f", "o", "o">>
S_MT == <<"M", "T", "-">>
S_c == <<"c", ":">>
S_g == <<"g", ":">>
S_star == <<"*">>

(***************************************************************************)
(* The dataset: adata.obs and adata.var are tables (an index and an        *)
(* ordered list of typed columns), adata.X is the count matrix.            *)
(***************************************************************************)
Column(name, kind, dname, boolcats, values) ==
    [name |-> name, dtype |-> [kind |-> kind, name |-> dname, boolcats |-> boolcats],
     values |-> values]

ColNames(table) == {table.columns[i].name : i \in 1..Len(table.columns)}

HasCol(table, name) == name \in ColNames(table)

GetCol(table, name) ==
    table.columns[CHOOSE i \in 1..Len(table.columns) : table.columns[i].name = name]

\* table[name] = values: replaces the column of that name, or appends one
SetCol(table, col) ==
    IF HasCol(table, col.name)
    THEN [table EXCEPT !.columns =
            [i \in 1..Len(table.columns) |->
                IF table.columns[i].name = col.name THEN col ELSE table.columns[i]]]
    ELSE [table EXCEPT !.columns = Append(table.columns, col)]

\* getattr(table, name): the index, or a column; AttributeError otherwise
HasAttr(table, name) == name = S_index \/ HasCol(table, name)

GetAttr(table, name) ==
    IF name = S_index THEN table.index ELSE GetCol(table, name).values

\* seq[mask]: the elements at the positions where mask is true, in order
RECURSIVE Select(_, _)
Select(seq, mask) ==
    IF seq = <<>> THEN <<>>
    ELSE LET rest == Select(Tail(seq), Tail(mask))
         IN  IF Head(mask) THEN <<Head(seq)>> \o rest ELSE rest

SubsetTable(table, mask) ==
    [index |-> Select(table.index, mask),
     columns |-> [i \in 1..Len(table.columns) |->
                    [table.columns[i] EXCEPT !.values = Select(@, mask)]]]

RECURSIVE Sum(_)
Sum(seq) == IF seq = <<>> THEN 0 ELSE Head(seq) + Sum(Tail(seq))

NonZero(seq) == Cardinality({i \in 1..Len(seq) : seq[i] > 0})


(***************************************************************************)
(* Datasets the model starts from.  A dataset is described by whether a    *)
(* previous run left the count columns (pre), by which quality-control     *)
(* columns it carries (qc: "none", "mito" or "qc") and by whether the gene *)
(* index holds a mitochondrial gene (mt).                                  *)
(***************************************************************************)
\* total counts of cell r: 5, 50, 500, 5, ...
CellCount(r) == IF r % 3 = 1 THEN 5 ELSE IF r % 3 = 2 THEN 50 ELSE 500

\* the count matrix: row r holds the counts of cell r over the NVar genes
XRow(r) ==
    [j \in 1..NVar |->
        IF j = 1 THEN CellCount(r) - (r % 2) ELSE IF j = 2 THEN r % 2 ELSE 0]

CellLabel(r) == <<"c", Digits[r + 1]>>

GeneName(j, mt) ==
    IF j = 1 THEN (IF mt THEN S_MT \o <<"A">> ELSE <<"M", "T", "A">>)
    ELSE <<"G", Digits[j + 1]>>

GeneSymbol(j, mt) ==
    IF j = 2 THEN (IF mt THEN <<"M", "T", "B">> ELSE S_MT \o <<"B">>)
    ELSE <<"S", Digits[j + 1]>>

Cluster(r) == <<Digits[(r % 2) + 1]>>

\* a percentage column as a quality-control run leaves it: 30, 60, 90, 20, ...
Pct(r) == Num((r * 30) % 100, 0)

ObsNGenes(r) == Num(NonZero(XRow(r)), 0)
ObsNCounts(r) == Num(Sum(XRow(r)), 0)
VarNCells(j) == Num(Cardinality({r \in 1..NObs : XRow(r)[j] > 0}), 0)
VarNCounts(j) == Num(Sum([r \in 1..NObs |-> XRow(r)[j]]), 0)
VarMito(j) == j = 1

DataObs(pre, qc) ==
    LET Col(name, kind, dname, Val(_)) ==
            Column(name, kind, dname, FALSE, [r \in 1..NObs |-> Val(r)])
    IN  [index |-> [r \in 1..NObs |-> CellLabel(r)],
         columns |->
            <<Col(S_louvain, "O", "category", Cluster)>>
            \o (IF pre THEN <<Col(S_n_genes, "i", "int64", ObsNGenes),
                              Col(S_n_counts, "f", "float32", ObsNCounts)>>
                ELSE <<>>)
            \o (IF qc = "qc"
                THEN <<Col(S_pct_counts_ \o S_mito, "f", "float32", Pct)>>
                ELSE <<>>)]

DataVar(pre, qc, mt) ==
    LET Col(name, kind, dname, Val(_)) ==
            Column(name, kind, dname, FALSE, [j \in 1..NVar |-> Val(j)])
        Name(j) == GeneName(j, mt)
        Symbol(j) == GeneSymbol(j, mt)
    IN  [index |-> [j \in 1..NVar |-> Name(j)],
         columns |->
            <<Col(S_symbol, "O", "object", Symbol)>>
            \o (IF pre THEN <<Col(S_n_cells, "i", "int64", VarNCells),
                              Col(S_n_counts, "f", "float32", VarNCounts)>>
                ELSE <<>>)
            \o (IF qc # "none" THEN <<Col(S_mito, "b", "bool", VarMito)>> ELSE <<>>)
            \o (IF qc = "qc"
                THEN <<Col(S_mean_counts, "f", "float32", Pct),
                       Col(S_pct_dropout_by_counts, "f", "float64", Pct)>>
                ELSE <<>>)]

Dataset(pre, qc, mt) ==
    [obs |-> DataObs(pre, qc),
     var |-> DataVar(pre, qc, mt),
     X |-> [shape |-> <<NObs, NVar>>, rows |-> [r \in 1..NObs |-> XRow(r)]]]

Datasets == {Dataset(pre, qc, mt) : pre \in BOOLEAN, qc \in {"none", "mito", "qc"},
                                    mt \in BOOLEAN}

(***************************************************************************)
(* _get_attributes: the catalog of attribute names of both tables.         *)
(***************************************************************************)
CAT_c == <<"c">>
CAT_g == <<"g">>

InList(x, list) == \E i \in 1..Len(list) : list[i] = x

\* the loop over table.dtypes: one column classified by its dtype
ClassifyColumn(acc, col) ==
    IF col.dtype.kind = "O"
    THEN [acc EXCEPT
            !.bool = IF col.dtype.name = "category" /\ col.dtype.boolcats
                     THEN Append(@, col.name) ELSE @,
            !.categorical = Append(@, col.name)]
    ELSE IF col.dtype.kind \in {"i", "f"}
    THEN [acc EXCEPT !.numerical = Append(@, col.name)]
    ELSE IF col.dtype.kind = "b"
    THEN [acc EXCEPT !.bool = Append(@, col.name)]
    ELSE acc

RECURSIVE ClassifyColumns(_, _)
ClassifyColumns(acc, cols) ==
    IF cols = <<>> THEN acc
    ELSE ClassifyColumns(ClassifyColumn(acc, Head(cols)), Tail(cols))

\* the loop over attributes['g']['bool']: pct_counts_<flag>, starred when the
\* column is not yet on the cell table
RECURSIVE PctCountsNames(_, _)
PctCountsNames(flags, obs) ==
    IF flags = <<>> THEN <<>>
    ELSE LET attr2 == S_pct_counts_ \o Head(flags)
         IN  <<IF HasCol(obs, attr2) THEN attr2 ELSE attr2 \o S_star>>
             \o PctCountsNames(Tail(flags), obs)

get_attributes(adata) ==
    LET empty == [numerical |-> <<>>, categorical |-> <<S_index>>, bool |-> <<>>]
        c0 == ClassifyColumns(empty, adata.obs.columns)
        g0 == ClassifyColumns(empty, adata.var.columns)
        c1 == [c0 EXCEPT !.numerical = @ \o <<S_n_genes, S_n_counts>>]
        c2 == [c1 EXCEPT !.numerical = @ \o PctCountsNames(g0.bool, adata.obs)]
        g1 == [g0 EXCEPT !.numerical =
                 @ \o <<S_n_cells, S_n_counts, S_mean_counts, S_pct_dropout_by_counts>>]
    IN  (CAT_c :> c2) @@ (CAT_g :> g1)

(***************************************************************************)
(* _attributes_exists: <<found, cond_cat, cond_name>>.                     *)
(***************************************************************************)
\* variant: the gene table is looked up only when the cell table lacks the name
attributes_exists_first_match(name, attributes, dtype) ==
    IF StartsWith(name, S_c) \/ StartsWith(name, S_g)
    THEN LET parts == Partition(name, ":")
         IN  <<IF InList(parts[3], attributes[parts[1]][dtype]) THEN 1 ELSE 0,
               parts[1], parts[3]>>
    ELSE LET cond_cat == IF InList(name, attributes[CAT_c][dtype]) THEN CAT_c
                         ELSE IF InList(name, attributes[CAT_g][dtype]) THEN CAT_g
                         ELSE <<>>
         IN  <<Len(cond_cat), cond_cat, name>>

\* variant: a qualified name is looked up with its prefix
attributes_exists_keep_prefix(name, attributes, dtype) ==
    IF StartsWith(name, S_c) \/ StartsWith(name, S_g)
    THEN LET parts == Partition(name, ":")
         IN  <<IF InList(name, attributes[parts[1]][dtype]) THEN 1 ELSE 0,
               parts[1], parts[3]>>
    ELSE LET in_c == IF InList(name, attributes[CAT_c][dtype]) THEN CAT_c ELSE <<>>
             in_g == IF InList(name, attributes[CAT_g][dtype]) THEN CAT_g ELSE <<>>
         IN  <<Len(in_c \o in_g), in_c \o in_g, name>>

attributes_exists(name, attributes, dtype) ==
    IF StartsWith(name, S_c) \/ StartsWith(name, S_g)
    THEN LET parts == Partition(name, ":")
             cond_cat == parts[1]
             cond_name == parts[3]
         IN  <<IF InList(cond_name, attributes[cond_cat][dtype]) THEN 1 ELSE 0,
               cond_cat, cond_name>>
    ELSE LET in_c == IF InList(name, attributes[CAT_c][dtype]) THEN CAT_c ELSE <<>>
             in_g == IF InList(name, attributes[CAT_g][dtype]) THEN CAT_g ELSE <<>>
             cond_cat == in_c \o in_g
         IN  <<Len(cond_cat), cond_cat, name>>

(***************************************************************************)
(* _get_filter_conditions.                                                 *)
(***************************************************************************)
S_pct_counts_in_top_ == S_pct_counts_ \o S_in_top_

\* percent_top_pattern = ^pct_counts_in_top_(?P<n>\d+)_genes$
percent_top_pattern(s) ==
    /\ StartsWith(s, S_pct_counts_in_top_)
    /\ EndsWith(s, S__genes)
    /\ Len(s) > Len(S_pct_counts_in_top_) + Len(S__genes)
    /\ \A i \in (Len(S_pct_counts_in_top_) + 1)..(Len(s) - Len(S__genes)) : IsDigit(s[i])

\* the group n of a percent_top_pattern match
percent_top_n(s) == SubSeq(s, Len(S_pct_counts_in_top_) + 1, Len(s) - Len(S__genes))

\* qc_vars_pattern = ^pct_counts_(?P<qc_var>\S+)$
qc_vars_pattern(s) ==
    /\ StartsWith(s, S_pct_counts_)
    /\ Len(s) > Len(S_pct_counts_)
    /\ \A i \in (Len(S_pct_counts_) + 1)..Len(s) : ~IsSpace(s[i])

\* the group qc_var of a qc_vars_pattern match
qc_var_of(s) == SubSeq(s, Len(S_pct_counts_) + 1, Len(s))

Warning(msg, name) == [msg |-> msg, name |-> name]

\* variant: only the top-N pattern rescales
Rescale_percent_top_only(pt_match, qv_match, v) == IF pt_match THEN v * 100 ELSE v

\* if pt_match or qv_match: vmin *= 100; vmax *= 100
Rescale(pt_match, qv_match, v) == IF pt_match \/ qv_match THEN v * 100 ELSE v

\* the body of the loop over param; st holds conditions, pct_top, qc_vars and
\* the warnings logged so far
ParamBody(st, attributes, cond) ==
    LET name == cond[1]
        vmin == cond[2]
        vmax == cond[3]
        res == attributes_exists(name, attributes, "numerical")
        found == res[1]
        cond_name == res[3]
        pt_match == percent_top_pattern(cond_name)
        qv_match == qc_vars_pattern(cond_name)
        cond_cat == IF found < 1 THEN CAT_c ELSE res[2]
        entry == <<cond_name, Rescale(pt_match, qv_match, vmin),
                   Rescale(pt_match, qv_match, vmax)>>
    IN  IF found > 1
        THEN [st EXCEPT !.warnings = Append(@, Warning("found in both", name))]
        ELSE IF found < 1 /\ ~pt_match /\ ~qv_match
        THEN [st EXCEPT !.warnings = Append(@, Warning("unavailable", name))]
        ELSE [st EXCEPT
                !.pct_top = IF found < 1 /\ pt_match
                            THEN Append(@, IntOf(percent_top_n(cond_name))) ELSE @,
                !.qc_vars = IF found < 1 /\ ~pt_match /\ qv_match
                            THEN Append(@, qc_var_of(cond_name)) ELSE @,
                !.conditions[cond_cat].numerical = Append(@, entry)]

RECURSIVE ParamLoop(_, _, _)
ParamLoop(st, attributes, param) ==
    IF param = <<>> THEN st
    ELSE ParamLoop(ParamBody(st, attributes, Head(param)), attributes, Tail(param))

\* str.rstrip(): trailing whitespace removed
RECURSIVE RStrip(_)
RStrip(text) ==
    IF text # <<>> /\ text[Len(text)] \in {" ", "\n"}
    THEN RStrip(SubSeq(text, 1, Len(text) - 1))
    ELSE text

\* str.split('\n')
RECURSIVE SplitLines(_)
SplitLines(text) ==
    LET parts == Partition(text, "\n")
    IN  IF parts[2] = <<>> THEN <<text>> ELSE <<parts[1]>> \o SplitLines(parts[3])

\* values given inline are a list; otherwise they are an open file, read here
IsList(values) == values.kind = "list"

ReadValues(values) ==
    IF IsList(values) THEN values.items ELSE SplitLines(RStrip(values.text))

\* the body of the loop over category + subset
CategoryBody(st, attributes, cond) ==
    LET name == cond[1]
        values == cond[2]
        res == attributes_exists(name, attributes, "categorical")
        found == res[1]
        cond_cat == res[2]
        cond_name == res[3]
    IN  IF found > 1
        THEN [st EXCEPT !.warnings = Append(@, Warning("found in both", name))]
        ELSE IF found = 1
        THEN [st EXCEPT !.conditions[cond_cat].categorical =
                            Append(@, <<cond_name, ReadValues(values)>>)]
        ELSE [st EXCEPT !.warnings = Append(@, Warning("unavailable", name))]

RECURSIVE CategoryLoop(_, _, _)
CategoryLoop(st, attributes, conds) ==
    IF conds = <<>> THEN st
    ELSE CategoryLoop(CategoryBody(st, attributes, Head(conds)), attributes, Tail(conds))

\* sorted(pct_top): insertion sort, ascending
RECURSIVE Insert(_, _)
Insert(x, sorted) ==
    IF sorted = <<>> THEN <<x>>
    ELSE IF x <= Head(sorted) THEN <<x>> \o sorted
    ELSE <<Head(sorted)>> \o Insert(x, Tail(sorted))

RECURSIVE Sorted(_)
Sorted(seq) == IF seq = <<>> THEN <<>> ELSE Insert(Head(seq), Sorted(Tail(seq)))

EmptyConditions ==
    LET none == [numerical |-> <<>>, categorical |-> <<>>, bool |-> <<>>]
    IN  (CAT_c :> none) @@ (CAT_g :> none)

\* returns [conditions, qc_vars, pct_top] and the warnings it logged
get_filter_conditions(attributes, param, category, subset) ==
    LET st0 == [conditions |-> EmptyConditions, pct_top |-> <<>>, qc_vars |-> <<>>,
                warnings |-> <<>>]
        st1 == ParamLoop(st0, attributes, param)
        st2 == CategoryLoop(st1, attributes, category \o subset)
    IN  [st2 EXCEPT !.pct_top = Sorted(@)]

(***************************************************************************)
(* The collaborators filter_anndata calls on the dataset: the count        *)
(* filters of sc.pp, sc.pp.calculate_qc_metrics and the in-place subsets.  *)
(***************************************************************************)
AllTrue(n) == [i \in 1..n |-> TRUE]

XColumn(adata, j) == [r \in 1..Len(adata.X.rows) |-> adata.X.rows[r][j]]

\* variant: the cell table is subset without the matrix
inplace_subset_obs_table_only(adata, mask) ==
    [adata EXCEPT !.obs = SubsetTable(@, mask)]

\* adata._inplace_subset_obs(mask): the cell table and the matrix rows together
inplace_subset_obs(adata, mask) ==
    [adata EXCEPT
        !.obs = SubsetTable(@, mask),
        !.X = [shape |-> <<Len(Select(@.rows, mask)), @.shape[2]>>,
               rows |-> Select(@.rows, mask)]]

\* adata._inplace_subset_var(mask): the gene table and the matrix columns together
inplace_subset_var(adata, mask) ==
    [adata EXCEPT
        !.var = SubsetTable(@, mask),
        !.X = [shape |-> <<@.shape[1], Len(Select(mask, mask))>>,
               rows |-> [r \in 1..Len(@.rows) |-> Select(@.rows[r], mask)]]]

\* sc.pp.filter_cells(adata, min_genes=0): writes obs['n_genes'], keeps the cells
\* with at least 0 genes
filter_cells_min_genes(adata) ==
    LET number == [r \in 1..Len(adata.X.rows) |-> Num(NonZero(adata.X.rows[r]), 0)]
        withcol == [adata EXCEPT
                      !.obs = SetCol(@, Column(S_n_genes, "i", "int64", FALSE, number))]
    IN  inplace_subset_obs(withcol, [r \in 1..Len(number) |-> number[r] >= 0])

\* sc.pp.filter_cells(adata, min_counts=0): writes obs['n_counts']
filter_cells_min_counts(adata) ==
    LET number == [r \in 1..Len(adata.X.rows) |-> Num(Sum(adata.X.rows[r]), 0)]
        withcol == [adata EXCEPT
                      !.obs = SetCol(@, Column(S_n_counts, "f", "float32", FALSE, number))]
    IN  inplace_subset_obs(withcol, [r \in 1..Len(number) |-> number[r] >= 0])

\* sc.pp.filter_genes(adata, min_cells=0): writes var['n_cells']
filter_genes_min_cells(adata) ==
    LET number == [j \in 1..adata.X.shape[2] |-> Num(NonZero(XColumn(adata, j)), 0)]
        withcol == [adata EXCEPT
                      !.var = SetCol(@, Column(S_n_cells, "i", "int64", FALSE, number))]
    IN  inplace_subset_var(withcol, [j \in 1..Len(number) |-> number[j] >= 0])

\* sc.pp.filter_genes(adata, min_counts=0): writes var['n_counts']
filter_genes_min_counts(adata) ==
    LET number == [j \in 1..adata.X.shape[2] |-> Num(Sum(XColumn(adata, j)), 0)]
        withcol == [adata EXCEPT
                      !.var = SetCol(@, Column(S_n_counts, "f", "float32", FALSE, number))]
    IN  inplace_subset_var(withcol, [j \in 1..Len(number) |-> number[j] >= 0])

\* str(n) for n >= 0
RECURSIVE StrOfInt(_)
StrOfInt(n) ==
    IF n < 10 THEN <<Digits[n + 1]>> ELSE StrOfInt(n \div 10) \o <<Digits[(n % 10) + 1]>>

Max(row) == CHOOSE x \in {row[i] : i \in 1..Len(row)} :
                \A i \in 1..Len(row) : row[i] <= x

RemoveOne(row, x) ==
    LET i == CHOOSE k \in 1..Len(row) : row[k] = x
    IN  SubSeq(row, 1, i - 1) \o SubSeq(row, i + 1, Len(row))

\* the counts of the n highest-expressed genes of a cell
RECURSIVE TopSum(_, _)
TopSum(row, n) ==
    IF n = 0 \/ row = <<>> THEN 0
    ELSE Max(row) + TopSum(RemoveOne(row, Max(row)), n - 1)

\* a percentage of the total counts of a cell, in tenths
PctOfTotal(part, row) == IF Sum(row) = 0 THEN 0 ELSE (1000 * part) \div Sum(row)

FlaggedSum(row, flags) ==
    Sum([j \in 1..Len(row) |-> IF flags[j] = TRUE THEN row[j] ELSE 0])

\* qc_vars must name boolean columns of the gene table
qc_var_ok(adata, qc_var) ==
    HasCol(adata.var, qc_var) /\ GetCol(adata.var, qc_var).dtype.kind = "b"

RECURSIVE AddTopColumns(_, _, _)
AddTopColumns(obs, rows, percent_top) ==
    IF percent_top = <<>> THEN obs
    ELSE LET n == Head(percent_top)
             name == S_pct_counts_in_top_ \o StrOfInt(n) \o S__genes
             vals == [r \in 1..Len(rows) |-> PctOfTotal(TopSum(rows[r], n), rows[r])]
         IN  AddTopColumns(SetCol(obs, Column(name, "f", "float64", FALSE, vals)),
                           rows, Tail(percent_top))

RECURSIVE AddQcColumns(_, _, _)
AddQcColumns(adata, obs, qc_vars) ==
    IF qc_vars = <<>> THEN obs
    ELSE LET flags == GetCol(adata.var, Head(qc_vars)).values
             rows == adata.X.rows
             vals == [r \in 1..Len(rows) |->
                        PctOfTotal(FlaggedSum(rows[r], flags), rows[r])]
             name == S_pct_counts_ \o Head(qc_vars)
         IN  AddQcColumns(adata, SetCol(obs, Column(name, "f", "float32", FALSE, vals)),
                          Tail(qc_vars))

\* sc.pp.calculate_qc_metrics(adata, qc_vars=, percent_top=, inplace=True), when
\* every qc_var is usable: the percentage columns of the cell table, and
\* mean_counts and pct_dropout_by_counts of the gene table
calculate_qc_metrics(adata, qc_vars, percent_top) ==
    LET n_obs == Len(adata.X.rows)
        mean == [j \in 1..adata.X.shape[2] |->
                    IF n_obs = 0 THEN 0 ELSE (10 * Sum(XColumn(adata, j))) \div n_obs]
        dropout == [j \in 1..adata.X.shape[2] |->
                      IF n_obs = 0 THEN 0
                      ELSE 1000 - ((1000 * NonZero(XColumn(adata, j))) \div n_obs)]
        obs1 == AddTopColumns(adata.obs, adata.X.rows, percent_top)
        obs2 == AddQcColumns(adata, obs1, qc_vars)
        var1 == SetCol(adata.var, Column(S_mean_counts, "f", "float32", FALSE, mean))
        var2 == SetCol(var1, Column(S_pct_dropout_by_counts, "f", "float64", FALSE, dropout))
    IN  [adata EXCEPT !.obs = obs2, !.var = var2]

(***************************************************************************)
(* The masks of filter_anndata.                                            *)
(***************************************************************************)
\* variant: the upper bound is not tested
InRange_lower_only(v, vmin, vmax) == v >= vmin

\* variant: the bounds are exclusive
InRange_exclusive(v, vmin, vmax) == v > vmin /\ v < vmax

\* (attr >= vmin) & (attr <= vmax)
InRange(v, vmin, vmax) == v >= vmin /\ v <= vmax

\* attr.isin(values)
IsIn(v, values) == InList(v, values)

\* the two loops over one table's conditions; a numerical condition reads
\* table[name] (KeyError when the column is missing), a categorical one
\* getattr(table, name) (AttributeError)
RECURSIVE NumericalMask(_, _, _)
NumericalMask(k, table, conds) ==
    IF conds = <<>> THEN [exc |-> "", k |-> k]
    ELSE LET name == Head(conds)[1]
             vmin == Head(conds)[2]
             vmax == Head(conds)[3]
         IN  IF ~HasCol(table, name) THEN [exc |-> "KeyError", k |-> k]
             ELSE LET attr == GetCol(table, name).values
                  IN  NumericalMask([i \in 1..Len(k) |-> k[i] /\ InRange(attr[i], vmin, vmax)],
                                    table, Tail(conds))

RECURSIVE CategoricalMask(_, _, _)
CategoricalMask(k, table, conds) ==
    IF conds = <<>> THEN [exc |-> "", k |-> k]
    ELSE LET name == Head(conds)[1]
             values == Head(conds)[2]
         IN  IF ~HasAttr(table, name) THEN [exc |-> "AttributeError", k |-> k]
             ELSE LET attr == GetAttr(table, name)
                  IN  CategoricalMask([i \in 1..Len(k) |-> k[i] /\ IsIn(attr[i], values)],
                                      table, Tail(conds))

BuildMask(table, conds) ==
    LET num == NumericalMask(AllTrue(Len(table.index)), table, conds.numerical)
    IN  IF num.exc # "" THEN num ELSE CategoricalMask(num.k, table, conds.categorical)

(***************************************************************************)
(* Inputs of filter_anndata.                                               *)
(***************************************************************************)
List(items) == [kind |-> "list", items |-> items]
File(text) == [kind |-> "file", text |-> text]

\* --param NAME MIN MAX
RangeConds ==
    {<<S_n_counts, Num(10, 0), Num(100, 0)>>,
     <<S_c \o S_n_counts, Num(10, 0), Num(100, 0)>>,
     <<S_c \o S_n_counts, Num(50, 0), Num(500, 0)>>,
     <<S_g \o S_mean_counts, Num(0, 0), Num(50, 0)>>,
     <<S_pct_counts_ \o S_mito, Num(0, 1), Num(0, 9)>>,
     <<S_pct_counts_in_top_ \o <<"1">> \o S__genes, Num(0, 1), Num(0, 9)>>}

\* --category NAME VALUES
CategoryConds ==
    {<<S_index, List(<<CellLabel(1)>>)>>,
     <<S_c \o S_index, List(<<CellLabel(1), CellLabel(2)>>)>>,
     <<S_louvain, List(<<Cluster(1)>>)>>,
     <<S_g \o S_index, List(<<GeneName(2, TRUE)>>)>>}

\* --subset NAME FILE
SubsetConds ==
    {<<S_c \o S_index, File(CellLabel(2) \o <<"\n">> \o CellLabel(3) \o <<"\n">>)>>,
     <<S_louvain, File(Cluster(2) \o <<"\n">>)>>}

GeneNameChoices == {S_index, S_symbol, S_gene_id, <<>>}

SeqsUpTo(S, n) == UNION {[1..k -> S] : k \in 0..n}

(***************************************************************************)
(* filter_anndata as a state machine: pc is the position in the function.  *)
(***************************************************************************)
VARIABLES adata, gene_name, list_attr, param, category, subset,
          pc, attributes, conditions, qc_vars, pct_top, k_cell, k_gene,
          warnings, trace, ret, exc, resolved

vars == <<adata, gene_name, list_attr, param, category, subset,
          pc, attributes, conditions, qc_vars, pct_top, k_cell, k_gene,
          warnings, trace, ret, exc, resolved>>

inputs == <<gene_name, list_attr, param, category, subset>>

locals == <<attributes, conditions, qc_vars, pct_top, k_cell, k_gene>>

NoLocals ==
    /\ attributes = <<>>
    /\ conditions = EmptyConditions
    /\ qc_vars = <<>>
    /\ pct_top = <<>>
    /\ k_cell = <<>>
    /\ k_gene = <<>>
    /\ warnings = <<>>
    /\ trace = <<>>
    /\ ret = "none"
    /\ exc = ""
    /\ resolved = <<>>

Init ==
    /\ adata \in Datasets
    /\ gene_name \in GeneNameChoices
    /\ list_attr \in BOOLEAN
    /\ param \in SeqsUpTo(RangeConds, MaxConds)
    /\ category \in SeqsUpTo(CategoryConds, MaxConds - Len(param))
    /\ subset \in SeqsUpTo(SubsetConds, MaxConds - Len(param) - Len(category))
    /\ pc = "mito"
    /\ NoLocals

\* lines 33-45: the mito flag of the gene table
Mito ==
    /\ pc = "mito"
    /\ pc' = "attributes"
    /\ IF ~HasCol(adata.var, S_mito) /\ gene_name # <<>>
       THEN IF ~HasAttr(adata.var, gene_name)
            THEN /\ warnings' = Append(warnings, Warning("gene column not found", gene_name))
                 /\ UNCHANGED adata
            ELSE LET gene_names == GetAttr(adata.var, gene_name)
                     k_mito == [j \in 1..Len(gene_names) |-> StartsWith(gene_names[j], S_MT)]
                 IN  IF \E j \in 1..Len(k_mito) : k_mito[j]
                     THEN /\ adata' = [adata EXCEPT
                                !.var = SetCol(@, Column(S_mito, "b", "bool", FALSE, k_mito))]
                          /\ UNCHANGED warnings
                     ELSE /\ warnings' = Append(warnings, Warning("no MT genes", gene_name))
                          /\ UNCHANGED adata
       ELSE UNCHANGED <<adata, warnings>>
    /\ UNCHANGED <<inputs, locals, trace, ret, exc, resolved>>

\* line 47
GetAttributes ==
    /\ pc = "attributes"
    /\ attributes' = get_attributes(adata)
    /\ pc' = "list_attr"
    /\ UNCHANGED <<adata, inputs, conditions, qc_vars, pct_top, k_cell, k_gene,
                   warnings, trace, ret, exc, resolved>>

\* lines 48-50: the listing is echoed and 0 is returned
ListAttr ==
    /\ pc = "list_attr"
    /\ list_attr
    /\ trace' = Append(trace, "echo")
    /\ ret' = "0"
    /\ pc' = "done"
    /\ UNCHANGED <<adata, inputs, locals, warnings, exc, resolved>>

\* lines 52-53
GetFilterConditions ==
    /\ pc = "list_attr"
    /\ ~list_attr
    /\ LET got == get_filter_conditions(attributes, param, category, subset)
       IN  /\ conditions' = got.conditions
           /\ qc_vars' = got.qc_vars
           /\ pct_top' = got.pct_top
           /\ warnings' = warnings \o got.warnings
    /\ pc' = "preprocess"
    /\ UNCHANGED <<adata, inputs, attributes, k_cell, k_gene, trace, ret, exc, resolved>>

\* lines 55-62: each count column is computed unless it is already there
PreprocessData(a0) ==
    LET a1 == IF ~HasCol(a0.obs, S_n_genes) THEN filter_cells_min_genes(a0) ELSE a0
        a2 == IF ~HasCol(a1.obs, S_n_counts) THEN filter_cells_min_counts(a1) ELSE a1
        a3 == IF ~HasCol(a2.var, S_n_cells) THEN filter_genes_min_cells(a2) ELSE a2
        a4 == IF ~HasCol(a3.var, S_n_counts) THEN filter_genes_min_counts(a3) ELSE a3
    IN  a4

PreprocessCalls(a0) ==
    (IF ~HasCol(a0.obs, S_n_genes) THEN <<"filter_cells">> ELSE <<>>)
    \o (IF ~HasCol(a0.obs, S_n_counts) THEN <<"filter_cells">> ELSE <<>>)
    \o (IF ~HasCol(a0.var, S_n_cells) THEN <<"filter_genes">> ELSE <<>>)
    \o (IF ~HasCol(a0.var, S_n_counts) THEN <<"filter_genes">> ELSE <<>>)

Preprocess ==
    /\ pc = "preprocess"
    /\ adata' = PreprocessData(adata)
    /\ trace' = trace \o PreprocessCalls(adata)
    /\ pc' = "qc"
    /\ UNCHANGED <<inputs, locals, warnings, ret, exc, resolved>>

\* variant: the metrics are computed whatever was requested
NeedsQC_always(qv, pt) == TRUE

\* line 64: if qc_vars or pct_top
NeedsQC(qv, pt) == qv # <<>> \/ pt # <<>>

\* lines 65-66: if not pct_top: pct_top = [50]
PercentTopArg(pt) == IF pt = <<>> THEN <<50>> ELSE pt

\* lines 64-68, when the collaborator returns
CalculateQC ==
    /\ pc = "qc"
    /\ NeedsQC(qc_vars, pct_top)
    /\ \A i \in 1..Len(qc_vars) : qc_var_ok(adata, qc_vars[i])
    /\ pct_top' = PercentTopArg(pct_top)
    /\ adata' = calculate_qc_metrics(adata, qc_vars, PercentTopArg(pct_top))
    /\ trace' = Append(trace, "calculate_qc_metrics")
    /\ pc' = "mask_cells"
    /\ UNCHANGED <<inputs, attributes, conditions, qc_vars, k_cell, k_gene,
                   warnings, ret, exc, resolved>>

\* lines 64-68, when the collaborator fails on a qc_var that is no boolean
\* column of the gene table
CalculateQCRaises ==
    /\ pc = "qc"
    /\ NeedsQC(qc_vars, pct_top)
    /\ \E i \in 1..Len(qc_vars) : ~qc_var_ok(adata, qc_vars[i])
    /\ pct_top' = PercentTopArg(pct_top)
    /\ trace' = Append(trace, "calculate_qc_metrics")
    /\ exc' = "KeyError"
    /\ pc' = "raised"
    /\ UNCHANGED <<adata, inputs, attributes, conditions, qc_vars, k_cell, k_gene,
                   warnings, ret, resolved>>

\* line 64, when there is nothing to compute
SkipQC ==
    /\ pc = "qc"
    /\ ~NeedsQC(qc_vars, pct_top)
    /\ pc' = "mask_cells"
    /\ UNCHANGED <<adata, inputs, locals, warnings, trace, ret, exc, resolved>>

\* lines 70-79
MaskCells ==
    /\ pc = "mask_cells"
    /\ LET got == BuildMask(adata.obs, conditions[CAT_c])
       IN  /\ k_cell' = got.k
           /\ exc' = got.exc
           /\ pc' = IF got.exc # "" THEN "raised" ELSE "mask_genes"
    /\ trace' = Append(trace, "mask")
    /\ UNCHANGED <<adata, inputs, attributes, conditions, qc_vars, pct_top, k_gene,
                   warnings, ret, resolved>>

\* lines 81-90
MaskGenes ==
    /\ pc = "mask_genes"
    /\ LET got == BuildMask(adata.var, conditions[CAT_g])
       IN  /\ k_gene' = got.k
           /\ exc' = got.exc
           /\ pc' = IF got.exc # "" THEN "raised" ELSE "subset_obs"
    /\ trace' = Append(trace, "mask")
    /\ UNCHANGED <<adata, inputs, attributes, conditions, qc_vars, pct_top, k_cell,
                   warnings, ret, resolved>>

\* line 92
SubsetObs ==
    /\ pc = "subset_obs"
    /\ adata' = inplace_subset_obs(adata, k_cell)
    /\ pc' = "subset_var"
    /\ UNCHANGED <<inputs, locals, warnings, trace, ret, exc, resolved>>

\* lines 93-95
SubsetVar ==
    /\ pc = "subset_var"
    /\ adata' = inplace_subset_var(adata, k_gene)
    /\ ret' = "adata"
    /\ pc' = "done"
    /\ UNCHANGED <<inputs, locals, warnings, trace, exc, resolved>>

Next ==
    \/ Mito
    \/ GetAttributes
    \/ ListAttr
    \/ GetFilterConditions
    \/ Preprocess
    \/ CalculateQC
    \/ CalculateQCRaises
    \/ SkipQC
    \/ MaskCells
    \/ MaskGenes
    \/ SubsetObs
    \/ SubsetVar

Spec == Init /\ [][Next]_vars

(***************************************************************************)
(* _get_filter_conditions on its own: the catalog of a dataset and a wider *)
(* choice of conditions, compiled in one step.                             *)
(***************************************************************************)
PctBounds == <<Num(0, 1), Num(0, 9)>>
CountBounds == <<Num(10, 0), Num(100, 0)>>

Range(name, bounds) == <<name, bounds[1], bounds[2]>>

S_top_50 == S_pct_counts_in_top_ \o <<"5", "0">> \o S__genes
S_top_5 == S_pct_counts_in_top_ \o <<"5">> \o S__genes
S_top_050 == S_pct_counts_in_top_ \o <<"0", "5", "0">> \o S__genes
S_top_x == S_pct_counts_in_top_ \o <<"x">> \o S__genes
S_pct_counts_mito == S_pct_counts_ \o S_mito

CompileRangeConds ==
    {Range(S_n_counts, CountBounds),
     Range(S_c \o S_n_counts, CountBounds),
     Range(S_g \o S_n_counts, CountBounds),
     Range(S_n_genes, CountBounds),
     Range(S_mean_counts, CountBounds),
     Range(S_top_50, PctBounds),
     Range(S_c \o S_top_50, PctBounds),
     Range(S_g \o S_top_50, CountBounds),
     Range(S_top_5, PctBounds),
     Range(S_top_050, PctBounds),
     Range(S_top_x, PctBounds),
     Range(S_pct_counts_mito, PctBounds),
     Range(S_g \o S_pct_counts_mito, PctBounds),
     Range(S_pct_counts_mito \o S_star, PctBounds),
     Range(S_pct_counts_, PctBounds),
     Range(S_pct_counts_ \o <<"a", " ", "b">>, PctBounds),
     Range(S_foo, CountBounds)}

CompileCategoryConds ==
    {<<S_index, List(<<CellLabel(1)>>)>>,
     <<S_c \o S_index, List(<<CellLabel(1), CellLabel(2)>>)>>,
     <<S_g \o S_index, List(<<GeneName(2, TRUE)>>)>>,
     <<S_louvain, List(<<Cluster(1)>>)>>,
     <<S_g \o S_louvain, List(<<Cluster(1)>>)>>,
     <<S_symbol, List(<<GeneSymbol(1, TRUE)>>)>>,
     <<S_foo, List(<<>>)>>}

CompileSubsetConds ==
    {<<S_index, File(CellLabel(2) \o <<"\n">>)>>,
     <<S_c \o S_index, File(CellLabel(2) \o <<"\n">> \o CellLabel(3) \o <<"\n">>)>>,
     <<S_louvain, File(Cluster(2) \o <<"\n", " ", "\n">>)>>,
     <<S_symbol, File(<<>>)>>}

InitCompile ==
    /\ adata \in Datasets
    /\ gene_name = S_index
    /\ list_attr = FALSE
    /\ param \in SeqsUpTo(CompileRangeConds, MaxConds)
    /\ category \in SeqsUpTo(CompileCategoryConds, MaxConds - Len(param))
    /\ subset \in SeqsUpTo(CompileSubsetConds, MaxConds - Len(param) - Len(category))
    /\ pc = "list_attr"
    /\ attributes = get_attributes(adata)
    /\ conditions = EmptyConditions
    /\ qc_vars = <<>>
    /\ pct_top = <<>>
    /\ k_cell = <<>>
    /\ k_gene = <<>>
    /\ warnings = <<>>
    /\ trace = <<>>
    /\ ret = "none"
    /\ exc = ""
    /\ resolved = <<>>

NextCompile == GetFilterConditions

SpecCompile == InitCompile /\ [][NextCompile]_vars

(***************************************************************************)
(* _attributes_exists on its own: one lookup of a name in a catalog.       *)
(***************************************************************************)
BareNames ==
    {S_index, S_n_genes, S_n_counts, S_n_cells, S_mean_counts, S_pct_dropout_by_counts,
     S_mito, S_louvain, S_symbol, S_pct_counts_mito, S_pct_counts_mito \o S_star,
     S_top_50, S_foo, <<>>, <<"c">>, <<"g">>}

QueryNames ==
    BareNames \cup {S_c \o n : n \in BareNames} \cup {S_g \o n : n \in BareNames}
    \cup {S_c \o S_g \o S_n_counts, S_g \o S_c \o S_index}

Kinds == {"numerical", "categorical", "bool"}

InitResolve ==
    /\ adata \in Datasets
    /\ gene_name = S_index
    /\ list_attr = FALSE
    /\ param = <<>>
    /\ category = <<>>
    /\ subset = <<>>
    /\ pc = "resolve"
    /\ attributes = get_attributes(adata)
    /\ conditions = EmptyConditions
    /\ qc_vars = <<>>
    /\ pct_top = <<>>
    /\ k_cell = <<>>
    /\ k_gene = <<>>
    /\ warnings = <<>>
    /\ trace = <<>>
    /\ ret = "none"
    /\ exc = ""
    /\ resolved = <<>>

AttributesExists ==
    /\ pc = "resolve"
    /\ \E name \in QueryNames, dtype \in Kinds :
          resolved' = [name |-> name, dtype |-> dtype,
                       result |-> attributes_exists(name, attributes, dtype)]
    /\ pc' = "resolved"
    /\ UNCHANGED <<adata, inputs, locals, warnings, trace, ret, exc>>

NextResolve == AttributesExists

SpecResolve == InitResolve /\ [][NextResolve]_vars

(***************************************************************************)
(* Properties.                                                             *)
(***************************************************************************)
IsQualified(name) == StartsWith(name, S_c) \/ StartsWith(name, S_g)

BareName(name) == IF IsQualified(name) THEN SubSeq(name, 3, Len(name)) ELSE name

InCatalog(cat, dtype, n) ==
    n \in {attributes[cat][dtype][i] : i \in 1..Len(attributes[cat][dtype])}

Count(seq, x) == Cardinality({i \in 1..Len(seq) : seq[i] = x})

\* the k-th smallest member of a set of positions
Nth(S, k) == CHOOSE i \in S : Cardinality({j \in S : j <= i}) = k

\* new is old restricted to the rows at the positions in kept, in their order
IsRestriction(new, old, kept) ==
    /\ Len(new.index) = Cardinality(kept)
    /\ Len(new.columns) = Len(old.columns)
    /\ \A k \in 1..Len(new.index) :
          /\ new.index[k] = old.index[Nth(kept, k)]
          /\ \A c \in 1..Len(old.columns) :
                /\ new.columns[c].name = old.columns[c].name
                /\ Len(new.columns[c].values) = Len(new.index)
                /\ new.columns[c].values[k] = old.columns[c].values[Nth(kept, k)]

\* the rows of a table that satisfy every resolved predicate bound to it
Satisfying(table, conds) ==
    {i \in 1..Len(table.index) :
        /\ \A n \in 1..Len(conds.numerical) :
              LET v == GetCol(table, conds.numerical[n][1]).values[i]
              IN  conds.numerical[n][2] <= v /\ v <= conds.numerical[n][3]
        /\ \A n \in 1..Len(conds.categorical) :
              GetAttr(table, conds.categorical[n][1])[i]
                 \in {conds.categorical[n][2][m] : m \in 1..Len(conds.categorical[n][2])}}

\* the rows of the cell table whose n_counts lies in [lo, hi]
CountsWithin(table, lo, hi) ==
    {i \in 1..Len(table.index) :
        lo <= GetCol(table, S_n_counts).values[i]
        /\ GetCol(table, S_n_counts).values[i] <= hi}

OnlyRange(name) ==
    /\ Len(param) = 1
    /\ param[1][1] = name
    /\ category = <<>>
    /\ subset = <<>>

\* C1 as stated: with the single range condition (n_counts, lo, hi), given by
\* the plain name n_counts, the cell rows that survive are exactly those whose
\* n_counts lies in [lo, hi].
MaskConjunctionPlainName ==
    [][(pc = "subset_obs" /\ OnlyRange(S_n_counts))
          => IsRestriction(adata'.obs, adata.obs,
                           CountsWithin(adata.obs, param[1][2], param[1][3]))]_vars

\* C1 amended: with the single range condition (c:n_counts, lo, hi), n_counts
\* qualified by the cell-table tag, the cell rows that survive are exactly those
\* whose n_counts lies in [lo, hi], in their order; the gene table keeps its rows.
MaskConjunction ==
    [][(pc = "subset_obs" /\ OnlyRange(S_c \o S_n_counts))
          => /\ IsRestriction(adata'.obs, adata.obs,
                              CountsWithin(adata.obs, param[1][2], param[1][3]))
             /\ adata'.var = adata.var]_vars

\* n_counts 5, 50, 500 and (c:n_counts, 10, 100): only the row with 50 is left
MaskConjunctionWitness ==
    /\ pc = "done"
    /\ ret = "adata"
    /\ param = <<Range(S_c \o S_n_counts, CountBounds)>>
    /\ category = <<>>
    /\ subset = <<>>
    /\ adata.obs.index = <<CellLabel(2)>>
    /\ GetCol(adata.obs, S_n_counts).values = <<Num(50, 0)>>

\* C2: in every state of filter_anndata the matrix has as many rows as the cell
\* table and as many columns as the gene table.
TwoTableConsistency ==
    /\ adata.X.shape[1] = Len(adata.obs.index)
    /\ adata.X.shape[2] = Len(adata.var.index)
    /\ Len(adata.X.rows) = Len(adata.obs.index)
    /\ \A r \in 1..Len(adata.X.rows) : Len(adata.X.rows[r]) = Len(adata.var.index)

TwoTableConsistencyWitness ==
    /\ pc = "done"
    /\ ret = "adata"
    /\ Len(adata.obs.index) \in 1..(NObs - 1)
    /\ Len(adata.var.index) \in 1..(NVar - 1)

Ambiguous(name, dtype) ==
    /\ ~IsQualified(name)
    /\ InCatalog(CAT_c, dtype, name)
    /\ InCatalog(CAT_g, dtype, name)

Unambiguous(conds, dtype) ==
    LET Test(cond) == ~Ambiguous(cond[1], dtype)
    IN  SelectSeq(conds, Test)

Entries ==
    Len(conditions[CAT_c].numerical) + Len(conditions[CAT_g].numerical)
    + Len(conditions[CAT_c].categorical) + Len(conditions[CAT_g].categorical)

\* C3: a range, categorical or subset condition whose unqualified name is in the
\* kind set of both catalogs is dropped with a warning and without an exception,
\* it is in neither resolved-predicate list, and the other conditions are
\* compiled as if it had not been given.
AmbiguousNameSafety ==
    pc = "preprocess" =>
        LET members == category \o subset
            alone == get_filter_conditions(attributes, Unambiguous(param, "numerical"),
                                           Unambiguous(category, "categorical"),
                                           Unambiguous(subset, "categorical"))
            dropped == {i \in 1..Len(param) : Ambiguous(param[i][1], "numerical")}
            droppedm == {i \in 1..Len(members) : Ambiguous(members[i][1], "categorical")}
        IN  /\ exc = ""
            /\ \A i \in dropped : InList(Warning("found in both", param[i][1]), warnings)
            /\ \A i \in droppedm : InList(Warning("found in both", members[i][1]), warnings)
            /\ Entries + Len(warnings) = Len(param) + Len(members)
            /\ Len(warnings) >= Cardinality(dropped) + Cardinality(droppedm)
            /\ conditions = alone.conditions
            /\ qc_vars = alone.qc_vars
            /\ pct_top = alone.pct_top

AmbiguousNameSafetyWitness ==
    /\ pc = "preprocess"
    /\ param = <<Range(S_n_counts, CountBounds), Range(S_n_genes, CountBounds)>>
    /\ conditions[CAT_c].numerical = <<Range(S_n_genes, CountBounds)>>
    /\ conditions[CAT_g].numerical = <<>>
    /\ warnings = <<Warning("found in both", S_n_counts)>>

IsDerivedName(n) == percent_top_pattern(n) \/ qc_vars_pattern(n)

\* C4: a range condition whose bare name is in neither numerical catalog and
\* matches pct_counts_in_top_<N>_genes or pct_counts_<group> becomes a predicate
\* of the cell table with both bounds times 100, whatever its prefix; and the
\* bounds of every compiled range condition are times 100 exactly when its bare
\* name matches one of the two patterns, and unchanged otherwise.
RescalingLaw ==
    pc = "preprocess" =>
        /\ \A i \in 1..Len(param) :
              LET bare == BareName(param[i][1])
              IN  (/\ ~InCatalog(CAT_c, "numerical", bare)
                   /\ ~InCatalog(CAT_g, "numerical", bare)
                   /\ IsDerivedName(bare))
                  => /\ InList(<<bare, 100 * param[i][2], 100 * param[i][3]>>,
                               conditions[CAT_c].numerical)
                     /\ \A n \in 1..Len(conditions[CAT_g].numerical) :
                           conditions[CAT_g].numerical[n][1] # bare
        /\ \A cat \in {CAT_c, CAT_g} :
              \A n \in 1..Len(conditions[cat].numerical) :
                 LET e == conditions[cat].numerical[n]
                     factor == IF IsDerivedName(e[1]) THEN 100 ELSE 1
                 IN  \E i \in 1..Len(param) :
                        /\ BareName(param[i][1]) = e[1]
                        /\ e[2] = factor * param[i][2]
                        /\ e[3] = factor * param[i][3]

\* pct_counts_in_top_50_genes with (0.1, 0.9) becomes (10, 90) on the cell table
RescalingLawWitness ==
    /\ pc = "preprocess"
    /\ param = <<<<S_top_50, Num(0, 1), Num(0, 9)>>>>
    /\ conditions[CAT_c].numerical = <<<<S_top_50, Num(10, 0), Num(90, 0)>>>>
    /\ conditions[CAT_g].numerical = <<>>

QcCalls == Count(trace, "calculate_qc_metrics")

NamesDerivedMetric == \E i \in 1..Len(param) : IsDerivedName(BareName(param[i][1]))

\* C5: in one filter_anndata invocation sc.pp.calculate_qc_metrics is invoked at
\* most once, never when no range condition names a derived-metric pattern nor
\* when the derived-metric request is empty, and never after a mask predicate
\* was evaluated.
DerivedMetricGating ==
    /\ QcCalls <= 1
    /\ ~NamesDerivedMetric => QcCalls = 0
    /\ (qc_vars = <<>> /\ pct_top = <<>>) => QcCalls = 0
    /\ \A i, j \in 1..Len(trace) :
          (trace[i] = "mask" /\ trace[j] = "calculate_qc_metrics") => j < i

\* a group percentage and a top-N percentage requested together: one call
DerivedMetricGatingWitness ==
    /\ pc = "done"
    /\ ret = "adata"
    /\ Len(qc_vars) = 1
    /\ pct_top = <<1>>
    /\ QcCalls = 1
    /\ Count(trace, "mask") = 2

\* C6: the top-N sequence returned by _get_filter_conditions is strictly
\* ascending, each requested N in it once, and each requested feature-group
\* label is in the group request once.
DerivedRequestsDeduplicated ==
    pc = "preprocess" =>
        /\ \A i, j \in 1..Len(pct_top) : i < j => pct_top[i] < pct_top[j]
        /\ \A i, j \in 1..Len(qc_vars) : i < j => qc_vars[i] # qc_vars[j]

\* C7: with list_attr set, no step of filter_anndata changes the cell table, the
\* gene table or the matrix, no condition is compiled, and the call returns 0.
ListingNoMutation ==
    [][list_attr => /\ adata' = adata
                    /\ conditions' = EmptyConditions
                    /\ (pc' = "done" => ret' = "0")]_vars

\* C8: _attributes_exists on an unqualified name counts the tables whose kind
\* set holds the name (tagging the table when it is the only one); on a name
\* prefixed c: or g: it strips the prefix, looks in the tagged table alone and
\* returns 0 or 1 with that tag and the bare name.
ResolutionTotality ==
    resolved # <<>> =>
        LET name == resolved.name
            dtype == resolved.dtype
            found == resolved.result[1]
            tag == resolved.result[2]
            bare == resolved.result[3]
            holders == {cat \in {CAT_c, CAT_g} : InCatalog(cat, dtype, name)}
        IN  IF Len(name) >= 2 /\ name[1] \in {"c", "g"} /\ name[2] = ":"
            THEN /\ bare = SubSeq(name, 3, Len(name))
                 /\ tag = <<name[1]>>
                 /\ found = IF InCatalog(tag, dtype, bare) THEN 1 ELSE 0
            ELSE /\ bare = name
                 /\ found = Cardinality(holders)
                 /\ found = 1 => holders = {tag}
                 /\ found = 2 => tag = CAT_c \o CAT_g
                 /\ found = 0 => tag = <<>>

\* index is in the categorical set of both tables
ResolutionTotalityWitness ==
    /\ resolved # <<>>
    /\ resolved.name = S_index
    /\ resolved.dtype = "categorical"
    /\ resolved.result = <<2, CAT_c \o CAT_g, S_index>>

\* C9: when a mask is built, every range predicate compiled for a table names
\* a column of that table.
ResolvedColumnsExist ==
    /\ pc = "mask_cells" =>
          \A n \in 1..Len(conditions[CAT_c].numerical) :
             HasCol(adata.obs, conditions[CAT_c].numerical[n][1])
    /\ pc = "mask_genes" =>
          \A n \in 1..Len(conditions[CAT_g].numerical) :
             HasCol(adata.var, conditions[CAT_g].numerical[n][1])

\* the matrix restricted to the rows and columns at the given positions
IsSubMatrix(new, old, rows, cols) ==
    /\ new.shape = <<Cardinality(rows), Cardinality(cols)>>
    /\ Len(new.rows) = Cardinality(rows)
    /\ \A r \in 1..Len(new.rows) :
          /\ Len(new.rows[r]) = Cardinality(cols)
          /\ \A c \in 1..Len(new.rows[r]) :
                new.rows[r][c] = old.rows[Nth(rows, r)][Nth(cols, c)]

\* C10: the in-place subsets leave in each table exactly the rows that satisfy
\* every resolved predicate bound to that table (bounds inclusive, membership
\* in the allowed values), in their order, and leave the other table as it was.
MaskApplication ==
    [][/\ pc = "subset_obs" =>
            /\ IsRestriction(adata'.obs, adata.obs,
                             Satisfying(adata.obs, conditions[CAT_c]))
            /\ IsSubMatrix(adata'.X, adata.X,
                           Satisfying(adata.obs, conditions[CAT_c]),
                           1..Len(adata.var.index))
            /\ adata'.var = adata.var
       /\ pc = "subset_var" =>
            /\ IsRestriction(adata'.var, adata.var,
                             Satisfying(adata.var, conditions[CAT_g]))
            /\ IsSubMatrix(adata'.X, adata.X,
                           1..Len(adata.obs.index),
                           Satisfying(adata.var, conditions[CAT_g]))
            /\ adata'.obs = adata.obs]_vars

\* a range predicate met at its lower bound and a membership predicate, both
\* on the cell table, with a dropped condition beside them
MaskApplicationWitness ==
    /\ pc = "done"
    /\ ret = "adata"
    /\ conditions[CAT_c].numerical = <<<<S_n_counts, Num(50, 0), Num(500, 0)>>>>
    /\ Len(conditions[CAT_c].categorical) = 1
    /\ adata.obs.index = <<CellLabel(2)>>
    /\ Len(adata.var.index) = NVar
=============================================================================
